---- MODULE Spec2Model ----
(***************************************************************************)
(* A model of nlpfunctions/utils.py: the output-normalising decorators,    *)
(* the function composer, the irregular-list flattener and the index       *)
(* merge, with the stage functions the pipelines are built from.           *)
(*                                                                         *)
(* A Python value is a record [kind, name, id, chars, num, items, keys]:  *)
(* a str holds its characters, as code points, in chars, an int its number *)
(* in num, a list its elements in items, a bytes its bytes (as ints) in     *)
(* items, a pd.Series its labels in keys and its values in items, an       *)
(* exception the name of its class in name.  id tells objects apart where  *)
(* == cannot: see Object.  Split and join are computed on the characters,  *)
(* not assumed.                                                            *)
(***************************************************************************)
EXTENDS Integers, Sequences, FiniteSets, TLC

VARIABLES
    phase,          \* position of the scenario being run
    composer,       \* which composer (or "decorator", "flatten", "merge") is exercised
    f_args,         \* the functions handed to the composer / the decorated base function
    fn,             \* functools.reduce: the accumulator; afterwards the callable g
    decorators,     \* the decorators applied to f_args[1], innermost first
    args,           \* positional arguments of the last call
    kwargs,         \* keyword arguments of the last call
    result,         \* outcome of the last call: [status, val, calls]
    nested,         \* the value handed to flattenIrregularListOfLists
    iterableAlias,  \* whether collections.Iterable resolves on the running interpreter
    gens,           \* the generator objects obtained from the flattener
    outs,           \* what each generator has yielded so far
    stops,          \* how often each generator has signalled StopIteration
    dfs             \* the datasets handed to merge_dfs

vars == <<phase, composer, f_args, fn, decorators, args, kwargs, result,
          nested, iterableAlias, gens, outs, stops, dfs>>

(***************************************************************************)
(* Bounds of the model.                                                    *)
(***************************************************************************)
MaxStages == 3
MaxExtra == 1
MaxDecorators == 2
MaxNodes == 5
MaxStops == 2
MaxSize == 7

(***************************************************************************)
(* Python values.                                                          *)
(***************************************************************************)
None == [kind |-> "none", name |-> "", id |-> 0, chars |-> <<>>, num |-> 0, items |-> <<>>, keys |-> <<>>]
Str(s) == [None EXCEPT !.kind = "str", !.chars = s]
List(xs) == [None EXCEPT !.kind = "list", !.items = xs]
IntV(n) == [None EXCEPT !.kind = "int", !.num = n]
Bytes(bs) == [None EXCEPT !.kind = "bytes", !.items = [i \in 1..Len(bs) |-> IntV(bs[i])]]
\* pd.Series(dict(key=value)): one label (its characters), one value; a new
\* object, made during the call (id 0)
Series(key, value) == [None EXCEPT !.kind = "series", !.keys = <<key>>, !.items = <<value>>]
\* an exception instance, by the name of its class
Exc(name) == [None EXCEPT !.kind = "exc", !.name = name]

Return(v) == [status |-> "return", val |-> v]
Raise(name) == [status |-> "raise", val |-> Exc(name)]

\* v as an object of the caller's, known by id >= 1: two values of one id are
\* one object.  Identity is kept for a pd.Series only: any other two values that
\* are one object are equal by == as well.
Object(v, id) == [v EXCEPT !.id = id]

\* the printable ASCII characters texts are written in below: from the
\* space (32) to the underscore (95), and from a (97) to the tilde (126)
AsciiLow ==
    <<" ", "!", "\"", "#", "$", "%", "&", "'", "(", ")", "*", "+", ",", "-", ".", "/",
      "0", "1", "2", "3", "4", "5", "6", "7", "8", "9", ":", ";", "<", "=", ">", "?",
      "@", "A", "B", "C", "D", "E", "F", "G", "H", "I", "J", "K", "L", "M", "N", "O",
      "P", "Q", "R", "S", "T", "U", "V", "W", "X", "Y", "Z", "[", "\\", "]", "^", "_">>

AsciiHigh ==
    <<"a", "b", "c", "d", "e", "f", "g", "h", "i", "j", "k", "l", "m", "n", "o",
      "p", "q", "r", "s", "t", "u", "v", "w", "x", "y", "z", "{", "|", "}", "~">>

\* ord(c) of such a character
Ord(c) ==
    IF \E i \in 1..Len(AsciiLow) : AsciiLow[i] = c
    THEN 31 + (CHOOSE i \in 1..Len(AsciiLow) : AsciiLow[i] = c)
    ELSE 96 + (CHOOSE i \in 1..Len(AsciiHigh) : AsciiHigh[i] = c)

\* the code points of a text written character by character
Text(cs) == [i \in 1..Len(cs) |-> Ord(cs[i])]

\* the labels the module gives its pd.Series
outcome == Text(<<"o", "u", "t", "c", "o", "m", "e">>)
word_tok_text == Text(<<"w", "o", "r", "d", "_", "t", "o", "k", "_", "t", "e", "x", "t">>)

\* The code points str.split() cuts on: \t \n \x0b \x0c \r, \x1c-\x1f, the space,
\* \x85, \xa0, U+1680, U+2000-U+200A, U+2028, U+2029, U+202F, U+205F, U+3000.
Whitespace ==
    (9..13) \cup (28..32) \cup {133, 160, 5760} \cup (8192..8202)
        \cup {8232, 8233, 8239, 8287, 12288}

\* the bytes bytes.split() cuts on: \t \n \x0b \x0c \r and the space
ByteWhitespace == {9, 10, 11, 12, 13, 32}

\* the bytes of a bytes value, as numbers
Nums(v) == [i \in 1..Len(v.items) |-> v.items[i].num]

\* Objects Python can iterate over, and what iterating them yields.
IsIterable(v) == v.kind \in {"str", "list", "bytes", "series"}

Iter(v) ==
    IF v.kind = "str" THEN [i \in 1..Len(v.chars) |-> Str(<<v.chars[i]>>)]
    ELSE v.items

\* bool(v), as filter(None, ...) uses it
Truthy(v) ==
    CASE v.kind = "str" -> v.chars # <<>>
      [] v.kind \in {"list", "bytes"} -> v.items # <<>>
      [] v.kind = "int" -> v.num # 0
      [] OTHER -> FALSE

(***************************************************************************)
(* str.split and str.join on character sequences.                          *)
(***************************************************************************)
Min(S) == CHOOSE i \in S : \A j \in S : i <= j

Indices(s) == [i \in 1..Len(s) |-> i]

RECURSIVE Concat(_, _, _)
\* ss[lo] \o ... \o ss[hi]
Concat(ss, lo, hi) ==
    IF lo > hi THEN <<>>
    ELSE IF lo = hi THEN ss[lo]
    ELSE LET mid == (lo + hi) \div 2 IN Concat(ss, lo, mid) \o Concat(ss, mid + 1, hi)

\* sub occurs in s at index i
OccursAt(s, sub, i) == i + Len(sub) - 1 <= Len(s) /\ SubSeq(s, i, i + Len(sub) - 1) = sub

\* the first index >= from at which sub occurs in s, or 0
FindSub(s, sub, from) ==
    LET hits == {i \in from..Len(s) : OccursAt(s, sub, i)}
    IN IF hits = {} THEN 0 ELSE Min(hits)

\* sep can overlap an occurrence of itself: a proper prefix of it is a suffix
Bordered(sep) == \E k \in 1..(Len(sep) - 1) : SubSeq(sep, 1, k) = SubSeq(sep, Len(sep) - k + 1, Len(sep))

RECURSIVE GreedyCuts(_, _, _)
\* the occurrences of sep in s from index from on, taken left to right without overlap
GreedyCuts(s, sep, from) ==
    LET i == FindSub(s, sep, from) IN
    IF i = 0 THEN <<>> ELSE <<i>> \o GreedyCuts(s, sep, i + Len(sep))

\* where s.split(sep) cuts: occurrences of a sep that cannot overlap itself are
\* all taken
Cuts(s, sep) ==
    IF Bordered(sep) THEN GreedyCuts(s, sep, 1)
    ELSE SelectSeq(Indices(s), LAMBDA i : OccursAt(s, sep, i))

\* the pieces of s between the cuts
Pieces(s, sep, cuts) ==
    [k \in 1..(Len(cuts) + 1) |->
        SubSeq(s, IF k = 1 THEN 1 ELSE cuts[k - 1] + Len(sep),
                  IF k = Len(cuts) + 1 THEN Len(s) ELSE cuts[k] - 1)]

\* a split that loses the empty piece after a trailing separator
str_split_drop_last(s, sep) ==
    LET pieces == Pieces(s, sep, Cuts(s, sep)) IN
    IF pieces[Len(pieces)] = <<>> THEN SubSeq(pieces, 1, Len(pieces) - 1) ELSE pieces

\* s.split(sep) for a non-empty sep: every occurrence cuts, empty pieces are kept
str_split(s, sep) == Pieces(s, sep, Cuts(s, sep))

\* split() without a separator: cut on runs of blank items, no empty pieces
SplitRuns(s, blank) ==
    LET solid(i) == s[i] \notin blank
        starts == SelectSeq(Indices(s), LAMBDA i : solid(i) /\ (i = 1 \/ ~solid(i - 1)))
        ends == SelectSeq(Indices(s), LAMBDA i : solid(i) /\ (i = Len(s) \/ ~solid(i + 1)))
    IN [k \in 1..Len(starts) |-> SubSeq(s, starts[k], ends[k])]

\* s.split() of a str
str_split_ws(s) == SplitRuns(s, Whitespace)

\* b.split() of a bytes
bytes_split_ws(b) == SplitRuns(b, ByteWhitespace)

\* the items' characters with sep between them
JoinChars(sep, items) ==
    Concat([i \in 1..Len(items) |-> IF i = 1 THEN items[i].chars ELSE sep \o items[i].chars],
           1, Len(items))

\* sep.join(v): v must be iterable and yield only str
str_join(sep, v) ==
    IF ~IsIterable(v) THEN Raise("TypeError")
    ELSE LET items == Iter(v) IN
         IF \E i \in 1..Len(items) : items[i].kind # "str" THEN Raise("TypeError")
         ELSE Return(Str(JoinChars(sep, items)))

(***************************************************************************)
(* Function objects: a def with its parameters, or one of the closures the *)
(* module builds.  name and doc are __name__ and __doc__ (<<>> is None).   *)
(***************************************************************************)
NoDefault == <<>>
NoKwargs == <<>>

Def(name, doc, params, defaults) ==
    [kind |-> "def", name |-> name, doc |-> <<doc>>, params |-> params, defaults |-> defaults]

sent_tok ==
    Def("sent_tok",
        "Return a sentence-tokenized version of text as a list of string sentences",
        <<"string_par">>, <<NoDefault>>)

word_tok ==
    Def("word_tok",
        "Return a word-tokenized version for each sentence in a list of string sentences",
        <<"list_of_string_sents">>, <<NoDefault>>)

word_tokens2string_sentences ==
    Def("word_tokens2string_sentences",
        "Return a list containing a single string of text for each word-tokenised sentence.",
        <<"list_of_lists_of_tokens">>, <<NoDefault>>)

list2string ==
    Def("list2string", "Return a string from a list of strings.",
        <<"list_of_strings">>, <<NoDefault>>)

output_series ==
    Def("output_series", "Takes strings and returns a pd.Series", <<"x">>, <<NoDefault>>)

break_words_df ==
    Def("break_words_df",
        "Break words of the compound form word1<symbol>word2 into the constituting words, then remove empty strings.",
        <<"INPUT", "compound_symbol">>, <<NoDefault, <<Str(Text(<<"-">>))>> >>)

KwKeys(kw) == {kw[i].key : i \in 1..Len(kw)}
KwVal(kw, k) == kw[CHOOSE i \in 1..Len(kw) : kw[i].key = k].val

\* Python's binding of a call's arguments to a function's parameters; ok is
\* FALSE where the call raises TypeError before the body runs.
Bind(params, defaults, as, kw) ==
    IF \/ Len(as) > Len(params)
       \/ \E i \in 1..Len(kw) : \A j \in 1..Len(params) : params[j] # kw[i].key
       \/ \E j \in 1..Len(as) : params[j] \in KwKeys(kw)
       \/ \E j \in (Len(as) + 1)..Len(params) :
             params[j] \notin KwKeys(kw) /\ defaults[j] = NoDefault
    THEN [ok |-> FALSE, env |-> <<>>]
    ELSE [ok |-> TRUE,
          env |-> [j \in 1..Len(params) |->
                     IF j <= Len(as) THEN as[j]
                     ELSE IF params[j] \in KwKeys(kw) THEN KwVal(kw, params[j])
                     ELSE defaults[j][1]]]

(***************************************************************************)
(* The bodies of the stage functions.                                      *)
(***************************************************************************)
\* try: return string_par.split(".")  except: return []
sent_tok_body(string_par) ==
    IF string_par.kind = "str"
    THEN LET pieces == str_split(string_par.chars, Text(<<".">>)) IN
         Return(List([i \in 1..Len(pieces) |-> Str(pieces[i])]))
    ELSE Return(List(<<>>))

\* elem.split(): a str gives its words as str, a bytes its words as bytes
WordList(elem) ==
    IF elem.kind = "str"
    THEN LET ws == str_split_ws(elem.chars) IN List([i \in 1..Len(ws) |-> Str(ws[i])])
    ELSE LET ws == bytes_split_ws(Nums(elem)) IN List([i \in 1..Len(ws) |-> Bytes(ws[i])])

\* try: return [elem.split() for elem in list_of_string_sents]  except: return []
word_tok_body(list_of_string_sents) ==
    IF ~IsIterable(list_of_string_sents) THEN Return(List(<<>>))
    ELSE LET elems == Iter(list_of_string_sents) IN
         IF \E i \in 1..Len(elems) : elems[i].kind \notin {"str", "bytes"}
         THEN Return(List(<<>>))
         ELSE Return(List([i \in 1..Len(elems) |-> WordList(elems[i])]))

\* return [" ".join(sent) for sent in list_of_lists_of_tokens]
word_tokens2string_sentences_body(list_of_lists_of_tokens) ==
    IF ~IsIterable(list_of_lists_of_tokens) THEN Raise("TypeError")
    ELSE LET sents == Iter(list_of_lists_of_tokens)
             joined == [i \in 1..Len(sents) |-> str_join(Text(<<" ">>), sents[i])]
         IN IF \E i \in 1..Len(sents) : joined[i].status = "raise" THEN Raise("TypeError")
            ELSE Return(List([i \in 1..Len(sents) |-> joined[i].val]))

\* return " ".join(list_of_strings)
list2string_body(list_of_strings) == str_join(Text(<<" ">>), list_of_strings)

\* return pd.Series(dict(outcome=x))
output_series_body(x) == Return(Series(outcome, x))

Filter(words) == SelectSeq(words, Truthy)

RECURSIVE Equals(_, _)
\* bool(a is b or a == b), as `in` and the == of lists ask it: "true", "false",
\* or "raise".  A pd.Series equals itself, being the same object; == with any
\* other pd.Series, or of a pd.Series with anything else, gives a pd.Series, whose
\* truth value raises ValueError.  Lists of one length are compared item by item
\* up to the first pair that is not equal.
Equals(a, b) ==
    IF a.kind = "series" /\ b.kind = "series" /\ a.id = b.id /\ a.id # 0 THEN "true"
    ELSE IF a.kind = "series" \/ b.kind = "series" THEN "raise"
    ELSE IF a.kind = "list" /\ b.kind = "list"
    THEN IF Len(a.items) # Len(b.items) THEN "false"
         ELSE LET eq == [i \in 1..Len(a.items) |-> Equals(a.items[i], b.items[i])]
                  differ == {i \in 1..Len(a.items) : eq[i] # "true"}
              IN IF differ = {} THEN "true" ELSE eq[Min(differ)]
    ELSE IF a = b THEN "true" ELSE "false"

\* One turn of break_words_df's inner loop: words after seeing w, or the
\* exception the turn raises.  `compound_symbol in w` is a substring test on a
\* str, a subsequence or byte test on a bytes, a search with == in a list and a
\* label lookup in a pd.Series (which hashes the symbol); where it is true
\* w.split is called, and a pd.Series that reaches the filter raises ValueError.
BreakWord(words, w, compound_symbol) ==
    CASE w.kind = "str" ->
           IF compound_symbol.kind # "str" THEN Raise("TypeError")
           ELSE IF compound_symbol.chars = <<>> THEN Raise("ValueError")
           ELSE IF FindSub(w.chars, compound_symbol.chars, 1) # 0
           THEN LET pieces == str_split(w.chars, compound_symbol.chars) IN
                Return(List(Filter(words \o [i \in 1..Len(pieces) |-> Str(pieces[i])])))
           ELSE Return(List(Filter(Append(words, w))))
      [] w.kind = "bytes" ->
           CASE compound_symbol.kind = "bytes" ->
                  IF compound_symbol.items = <<>> THEN Raise("ValueError")
                  ELSE IF FindSub(Nums(w), Nums(compound_symbol), 1) # 0
                  THEN LET pieces == str_split(Nums(w), Nums(compound_symbol)) IN
                       Return(List(Filter(words \o [i \in 1..Len(pieces) |-> Bytes(pieces[i])])))
                  ELSE Return(List(Filter(Append(words, w))))
             [] compound_symbol.kind = "int" ->
                  IF compound_symbol.num \notin 0..255 THEN Raise("ValueError")
                  ELSE IF \E i \in 1..Len(w.items) : w.items[i] = compound_symbol
                  THEN Raise("TypeError")
                  ELSE Return(List(Filter(Append(words, w))))
             [] OTHER -> Raise("TypeError")
      [] w.kind = "list" ->
           LET eq == [i \in 1..Len(w.items) |-> Equals(w.items[i], compound_symbol)]
               found == {i \in 1..Len(w.items) : eq[i] # "false"}
           IN IF found = {} THEN Return(List(Filter(Append(words, w))))
              ELSE IF eq[Min(found)] = "raise" THEN Raise("ValueError")
              ELSE Raise("AttributeError")
      [] w.kind = "series" ->
           IF compound_symbol.kind \in {"list", "series"} THEN Raise("TypeError")
           ELSE IF compound_symbol.kind = "str"
                   /\ \E i \in 1..Len(w.keys) : w.keys[i] = compound_symbol.chars
           THEN Raise("AttributeError")
           ELSE Raise("ValueError")
      [] OTHER -> Raise("TypeError")

\* The loop over the outcomes of its turns: the first exception, or all the results.
\* A turn's outcome depends on its own item only: what earlier turns left in
\* words has passed the filter and passes it again.
Loop(turns) ==
    LET raising == {i \in 1..Len(turns) : turns[i].status = "raise"} IN
    IF raising # {} THEN turns[Min(raising)]
    ELSE Return(List([i \in 1..Len(turns) |-> turns[i].val]))

\* the inner loop over a sentence: the words it leaves
BreakSentence(sent, compound_symbol) ==
    LET r == Loop([i \in 1..Len(sent) |-> BreakWord(<<>>, sent[i], compound_symbol)]) IN
    IF r.status = "raise" THEN r
    ELSE Return(List(Concat([i \in 1..Len(r.val.items) |-> r.val.items[i].items],
                            1, Len(r.val.items))))

\* the outer loop: OUTPUT when every sentence is done
BreakSentences(INPUT, compound_symbol) ==
    Loop([i \in 1..Len(INPUT) |->
            IF ~IsIterable(INPUT[i]) THEN Raise("TypeError")
            ELSE BreakSentence(Iter(INPUT[i]), compound_symbol)])

\* return pd.Series(dict(word_tok_text=OUTPUT))
break_words_df_body(INPUT, compound_symbol) ==
    IF ~IsIterable(INPUT) THEN Raise("TypeError")
    ELSE LET r == BreakSentences(Iter(INPUT), compound_symbol) IN
         IF r.status = "raise" THEN r
         ELSE Return(Series(word_tok_text, r.val))

Body(name, env) ==
    CASE name = "sent_tok" -> sent_tok_body(env[1])
      [] name = "word_tok" -> word_tok_body(env[1])
      [] name = "word_tokens2string_sentences" -> word_tokens2string_sentences_body(env[1])
      [] name = "list2string" -> list2string_body(env[1])
      [] name = "output_series" -> output_series_body(env[1])
      [] name = "break_words_df" -> break_words_df_body(env[1], env[2])

(***************************************************************************)
(* The closures of utils.py and what calling them does.  A call's outcome  *)
(* is [status, val, calls]: calls lists, in order, every call of a def     *)
(* function made on the way, with the arguments it was handed.             *)
(***************************************************************************)
\* lambda x: x
identity == [kind |-> "identity", name |-> "<lambda>", doc |-> <<>>]

combine_2fs_reversed(f, g) ==
    [kind |-> "combined", name |-> "<lambda>", doc |-> <<>>, f |-> g, g |-> f]

\* the lambda combine_2fs returns, closed over f and g
combine_2fs(f, g) ==
    [kind |-> "combined", name |-> "<lambda>", doc |-> <<>>, f |-> f, g |-> g]

\* series_output returns its inner def wrapper as it is
series_output(func) ==
    [kind |-> "series_output", name |-> "wrapper", doc |-> <<>>, func |-> func]

\* string_to_series_out returns its wrapper after functools.wraps(func)
string_to_series_out(func) ==
    [kind |-> "string_to_series_out", name |-> func.name, doc |-> func.doc, func |-> func]

Called(r, calls) == [status |-> r.status, val |-> r.val, calls |-> calls]

RECURSIVE Call(_, _, _)

\* a chaining lambda that hands its keyword arguments to f as well
combine_2fs_lambda_kw_to_f(f, g, as, kw) ==
    LET inner == Call(f, as, kw) IN
    IF inner.status = "raise" THEN inner
    ELSE LET outer == Call(g, <<inner.val>>, kw) IN
         Called(outer, inner.calls \o outer.calls)

\* a chaining lambda that swallows what f raises and goes on with None
combine_2fs_lambda_catching(f, g, as, kw) ==
    LET inner == Call(f, as, NoKwargs)
        outer == Call(g, <<IF inner.status = "raise" THEN None ELSE inner.val>>, kw)
    IN Called(outer, inner.calls \o outer.calls)

\* lambda *args, **kwargs: g(f(*args), **kwargs)
combine_2fs_lambda(f, g, as, kw) ==
    LET inner == Call(f, as, NoKwargs) IN
    IF inner.status = "raise" THEN inner
    ELSE LET outer == Call(g, <<inner.val>>, kw) IN
         Called(outer, inner.calls \o outer.calls)

\* return pd.Series(dict(outcome=func(*args, **kwargs)))
series_output_wrapper(func, as, kw) ==
    LET r == Call(func, as, kw) IN
    IF r.status = "raise" THEN r
    ELSE Called(Return(Series(outcome, r.val)), r.calls)

\* a wrapper that wraps whatever func returns, a pd.Series included
string_to_series_out_wrapper_unchecked(func, as, kw) ==
    LET r == Call(func, as, kw) IN
    IF r.status = "raise" THEN r
    ELSE Called(Return(Series(outcome, r.val)), r.calls)

\* outcome = func(*args, **kwargs); wrap it unless it is a pd.Series already
string_to_series_out_wrapper(func, as, kw) ==
    LET r == Call(func, as, kw) IN
    IF r.status = "raise" THEN r
    ELSE IF r.val.kind # "series"
    THEN Called(Return(Series(outcome, r.val)), r.calls)
    ELSE r

Call(f, as, kw) ==
    CASE f.kind = "def" ->
           LET b == Bind(f.params, f.defaults, as, kw) IN
           Called(IF b.ok THEN Body(f.name, b.env) ELSE Raise("TypeError"),
                  << [fn |-> f.name, args |-> as, kwargs |-> kw] >>)
      [] f.kind = "identity" ->
           LET b == Bind(<<"x">>, <<NoDefault>>, as, kw) IN
           Called(IF b.ok THEN Return(b.env[1]) ELSE Raise("TypeError"), <<>>)
      [] f.kind = "combined" -> combine_2fs_lambda(f.f, f.g, as, kw)
      [] f.kind = "series_output" -> series_output_wrapper(f.func, as, kw)
      [] f.kind = "string_to_series_out" -> string_to_series_out_wrapper(f.func, as, kw)

RECURSIVE reduce(_, _)
\* functools.reduce(combine_2fs, items, acc)
reduce(items, acc) ==
    IF items = <<>> THEN acc ELSE reduce(Tail(items), combine_2fs(acc, Head(items)))

combine_functions(fs) == reduce(fs, identity)

combine_functions_output_series(fs) == reduce(<<output_series>> \o fs, identity)

(***************************************************************************)
(* The inputs the scenarios draw from.                                     *)
(***************************************************************************)
Stages == {sent_tok, word_tok, word_tokens2string_sentences, list2string, break_words_df}

Sentence ==
    Text(<<"I", " ", "d", "o", " ", "n", "o", "t", " ", "c", "a", "r", "e", ".",
      " ", "I", " ", "t", "h", "i", "n", "k", ".">>)

\* the third text is "a b", a form feed, "c", U+1680, "d"
Texts ==
    {Str(<<>>), Str(Text(<<".">>)), Str(<<97, 32, 98, 12, 99, 5760, 100>>),
     Str(Text(<<"a", "-", "b", " ", "c", ".", " ", "-">>)), Str(Sentence)}

SeqsUpTo(S, n) == UNION {[1..k -> S] : k \in 0..n}

Extras == SeqsUpTo({Str(Text(<<"-">>))}, MaxExtra)

KwargsChoices ==
    {NoKwargs,
     << [key |-> "compound_symbol", val |-> Str(Text(<<"-">>))] >>,
     << [key |-> "compound_symbol", val |-> Str(Text(<<" ">>))] >>}

NoResult == [status |-> "none", val |-> None, calls |-> <<>>]

(***************************************************************************)
(* Scenario 1: a pipeline is composed, then called any number of times.    *)
(***************************************************************************)
InitPipeline ==
    /\ phase = "start"
    /\ composer \in {"combine_functions", "combine_functions_output_series"}
    /\ f_args \in SeqsUpTo(Stages, MaxStages)
    /\ fn = identity /\ decorators = <<>>
    /\ args = <<>> /\ kwargs = NoKwargs /\ result = NoResult
    /\ nested = None /\ iterableAlias = TRUE
    /\ gens = <<>> /\ outs = <<>> /\ stops = <<>> /\ dfs = <<>>

Compose ==
    /\ phase = "start"
    /\ fn' = IF composer = "combine_functions"
             THEN combine_functions(f_args)
             ELSE combine_functions_output_series(f_args)
    /\ phase' = "built"
    /\ UNCHANGED <<composer, f_args, decorators, args, kwargs, result,
                   nested, iterableAlias, gens, outs, stops, dfs>>

CallComposed ==
    /\ phase = "built"
    /\ \E x \in Texts, extra \in Extras, kw \in KwargsChoices :
          /\ args' = <<x>> \o extra
          /\ kwargs' = kw
          /\ result' = Call(fn, <<x>> \o extra, kw)
    /\ phase' = "called"
    /\ UNCHANGED <<composer, f_args, fn, decorators,
                   nested, iterableAlias, gens, outs, stops, dfs>>

\* the caller is done with the outcome; the pipeline stays usable
Drop ==
    /\ phase = "called"
    /\ phase' = "built"
    /\ args' = <<>> /\ kwargs' = NoKwargs /\ result' = NoResult
    /\ UNCHANGED <<composer, f_args, fn, decorators,
                   nested, iterableAlias, gens, outs, stops, dfs>>

NextPipeline == Compose \/ CallComposed \/ Drop

SpecPipeline == InitPipeline /\ [][NextPipeline]_vars

(***************************************************************************)
(* Claims about the composer.                                              *)
(***************************************************************************)
Reverse(q) == [i \in 1..Len(q) |-> q[Len(q) + 1 - i]]

\* what a def function does when called directly
Direct(f, as, kw) ==
    LET b == Bind(f.params, f.defaults, as, kw) IN
    IF b.ok THEN Body(f.name, b.env) ELSE Raise("TypeError")

RECURSIVE NestedApplication(_, _)
\* fn(...f2(f1(x))...): the last function applied to what the others give
NestedApplication(fs, x) ==
    IF fs = <<>> THEN Return(x)
    ELSE LET inner == NestedApplication(SubSeq(fs, 1, Len(fs) - 1), x) IN
         IF inner.status = "raise" THEN inner
         ELSE Direct(fs[Len(fs)], <<inner.val>>, NoKwargs)

SameOutcome(r, e) == r.status = e.status /\ r.val = e.val

PlainCall ==
    phase = "called" /\ composer = "combine_functions" /\ Len(args) = 1 /\ kwargs = NoKwargs

\* C1: combine_functions(f1, ..., fn)(x) equals fn(...f2(f1(x))...), the first
\* supplied function applied first, and combine_functions()(x) equals x.
C1_LeftToRight ==
    PlainCall => SameOutcome(result, NestedApplication(f_args, args[1]))

\* a call of a pipeline of several stages whose outcome tells the order apart
C1_Witness ==
    /\ PlainCall /\ Len(f_args) >= 2 /\ result.status = "return"
    /\ ~SameOutcome(result, NestedApplication(Reverse(f_args), args[1]))

\* the functions a call of g goes through, in the composer's order
StagesOf(comp, fs) ==
    IF comp = "combine_functions_output_series" THEN <<output_series>> \o fs ELSE fs

DefNamed(name) == CHOOSE f \in Stages \cup {output_series} : f.name = name

\* what the i-th logged call did, recomputed from the arguments it was handed
Logged(i) == Direct(DefNamed(result.calls[i].fn), result.calls[i].args, result.calls[i].kwargs)

\* C2 as stated: f1 is called with x, *extra and **kw; every later stage with one
\* positional argument and the same **kw.
C2_Original ==
    (phase = "called" /\ composer = "combine_functions" /\ Len(f_args) >= 1) =>
        /\ Len(result.calls) >= 1
        /\ result.calls[1] = [fn |-> f_args[1].name, args |-> args, kwargs |-> kwargs]
        /\ \A i \in 2..Len(result.calls) :
              Len(result.calls[i].args) = 1 /\ result.calls[i].kwargs = kwargs

\* C2 amended: with extra positional arguments the call raises TypeError before
\* any stage is called; otherwise every stage called receives one positional
\* argument (x, then its predecessor's return value), only the last stage fn
\* receives **kw, and every earlier stage receives no keyword argument.
C2_KwargsReachLastStageOnly ==
    (phase = "called" /\ composer = "combine_functions" /\ Len(f_args) >= 1) =>
        IF Len(args) # 1
        THEN /\ result.status = "raise" /\ result.val = Exc("TypeError")
             /\ result.calls = <<>>
        ELSE /\ Len(result.calls) >= 1
             /\ result.calls[1].args = args
             /\ \A i \in 1..Len(result.calls) :
                   /\ result.calls[i].fn = f_args[i].name
                   /\ i >= 2 => result.calls[i].args = <<Logged(i - 1).val>>
                   /\ result.calls[i].kwargs = IF i = Len(f_args) THEN kwargs ELSE NoKwargs

\* a call with a keyword argument that runs every stage of a longer pipeline
C2_Witness ==
    /\ phase = "called" /\ composer = "combine_functions"
    /\ Len(f_args) >= 2 /\ Len(args) = 1 /\ kwargs # NoKwargs
    /\ result.status = "return" /\ Len(result.calls) = Len(f_args)

\* C6: if a stage raises, that exception reaches the caller as it is and no later
\* stage is called: the calls made are a prefix of the pipeline, and a call that
\* raises is the last one, its exception the call's outcome.
C6_FailFast ==
    phase = "called" =>
        LET stages == StagesOf(composer, f_args) IN
        /\ Len(result.calls) <= Len(stages)
        /\ \A i \in 1..Len(result.calls) :
              /\ result.calls[i].fn = stages[i].name
              /\ Logged(i).status = "raise" =>
                    /\ i = Len(result.calls)
                    /\ SameOutcome(result, Logged(i))

\* a stage before the last one raised
C6_Witness ==
    /\ phase = "called" /\ result.status = "raise"
    /\ Len(result.calls) >= 1
    /\ Len(result.calls) < Len(StagesOf(composer, f_args))
    /\ Logged(Len(result.calls)).status = "raise"

TheExample ==
    /\ phase = "called" /\ composer = "combine_functions"
    /\ f_args = <<sent_tok, word_tok>>
    /\ args = <<Str(Sentence)>> /\ kwargs = NoKwargs

Words(ws) == List([i \in 1..Len(ws) |-> Str(Text(ws[i]))])
IDoNotCare == Words(<< <<"I">>, <<"d", "o">>, <<"n", "o", "t">>, <<"c", "a", "r", "e">> >>)
IThink == Words(<< <<"I">>, <<"t", "h", "i", "n", "k">> >>)

\* C9 as stated: the example returns exactly the two-element list
\* [["I","do","not","care"], ["I","think"]].
C9_Original ==
    TheExample => SameOutcome(result, Return(List(<<IDoNotCare, IThink>>)))

\* C9 amended: the example returns the three-element list
\* [["I","do","not","care"], ["I","think"], []]: the text ends with the
\* separator, so split(".") yields a last, empty sentence.
C9_TrailingEmptySentence ==
    TheExample => SameOutcome(result, Return(List(<<IDoNotCare, IThink, List(<<>>)>>)))

C9_Witness == TheExample /\ result.status = "return" /\ Len(result.val.items) = 3

(***************************************************************************)
(* Scenario 2: a function is decorated, perhaps repeatedly, and called.    *)
(***************************************************************************)
Decoratable == {sent_tok, word_tok, list2string, output_series, break_words_df}

InitDecorator ==
    /\ phase = "built"
    /\ composer = "decorator"
    /\ \E f \in Decoratable : f_args = <<f>> /\ fn = f
    /\ decorators = <<>>
    /\ args = <<>> /\ kwargs = NoKwargs /\ result = NoResult
    /\ nested = None /\ iterableAlias = TRUE
    /\ gens = <<>> /\ outs = <<>> /\ stops = <<>> /\ dfs = <<>>

\* fn = series_output(fn), as the @series_output line does
ApplySeriesOutput ==
    /\ phase = "built" /\ Len(decorators) < MaxDecorators
    /\ fn' = series_output(fn)
    /\ decorators' = Append(decorators, "series_output")
    /\ UNCHANGED <<phase, composer, f_args, args, kwargs, result,
                   nested, iterableAlias, gens, outs, stops, dfs>>

\* fn = string_to_series_out(fn)
ApplyStringToSeriesOut ==
    /\ phase = "built" /\ Len(decorators) < MaxDecorators
    /\ fn' = string_to_series_out(fn)
    /\ decorators' = Append(decorators, "string_to_series_out")
    /\ UNCHANGED <<phase, composer, f_args, args, kwargs, result,
                   nested, iterableAlias, gens, outs, stops, dfs>>

CallDecorated ==
    /\ phase = "built"
    /\ \E x \in Texts, kw \in KwargsChoices :
          /\ args' = <<x>>
          /\ kwargs' = kw
          /\ result' = Call(fn, <<x>>, kw)
    /\ phase' = "called"
    /\ UNCHANGED <<composer, f_args, fn, decorators,
                   nested, iterableAlias, gens, outs, stops, dfs>>

NextDecorator == ApplySeriesOutput \/ ApplyStringToSeriesOut \/ CallDecorated \/ Drop

SpecDecorator == InitDecorator /\ [][NextDecorator]_vars

(***************************************************************************)
(* Claims about the decorators.                                            *)
(***************************************************************************)
OnlyStringToSeriesOut ==
    /\ composer = "decorator" /\ decorators # <<>>
    /\ \A i \in 1..Len(decorators) : decorators[i] = "string_to_series_out"

\* what the undecorated function does with the call's arguments
Undecorated == Direct(f_args[1], args, kwargs)

\* C3: string_to_series_out applied once or several times returns a pd.Series f
\* returned as it is, and anything else as the one-field record {outcome: result}:
\* the same record however often the decorator is applied, never a nested one.
C3_Idempotent ==
    (phase = "called" /\ OnlyStringToSeriesOut) =>
        /\ SameOutcome(result,
              IF Undecorated.status = "raise" \/ Undecorated.val.kind = "series"
              THEN Undecorated
              ELSE Return(Series(outcome, Undecorated.val)))
        /\ result.status = "return" =>
              /\ result.val.kind = "series" /\ Len(result.val.keys) = 1
              /\ result.val.items[1].kind # "series"

\* the decorator applied twice to a function that returns a pd.Series itself
C3_Witness ==
    /\ phase = "called" /\ OnlyStringToSeriesOut /\ Len(decorators) = 2
    /\ Undecorated.status = "return" /\ Undecorated.val.kind = "series"
    /\ result.status = "return"

\* C8: the wrapper either decorator returns for f has f's name and docstring.
C8_IdentityPreserved ==
    (composer = "decorator" /\ Len(decorators) = 1) =>
        fn.name = f_args[1].name /\ fn.doc = f_args[1].doc

(***************************************************************************)
(* flattenIrregularListOfLists.  A generator object is the chain of the    *)
(* generators that `yield from` has started, outermost first; each is a    *)
(* frame of the function, suspended in its for loop: the iterator's items  *)
(* and the position of the next one.                                       *)
(***************************************************************************)
Frame(l) == [items |-> Iter(l), pos |-> 1]

NoGenerator == [state |-> "none", frames |-> <<>>, raised |-> ""]

\* isinstance(el, collections.Iterable) and not isinstance(el, (str, bytes))
IsContainer(el) == IsIterable(el) /\ el.kind \notin {"str", "bytes"}

RECURSIVE Resume(_, _)
\* Run the innermost frame on until something is yielded, the outermost
\* frame returns, or an exception leaves the generator.  alias tells whether
\* the attribute collections.Iterable exists: it was removed in Python 3.10,
\* where looking it up raises AttributeError.
Resume(frames, alias) ==
    IF frames = <<>> THEN [outcome |-> "stop", val |-> None, frames |-> <<>>]
    ELSE LET top == frames[Len(frames)] IN
         IF top.pos > Len(top.items)
         THEN Resume(SubSeq(frames, 1, Len(frames) - 1), alias)
         ELSE LET el == top.items[top.pos]
                  advanced == [frames EXCEPT ![Len(frames)].pos = top.pos + 1]
              IN IF ~alias
                 THEN [outcome |-> "raise", val |-> Exc("AttributeError"), frames |-> <<>>]
                 ELSE IF IsContainer(el)
                 THEN Resume(Append(advanced, Frame(el)), alias)
                 ELSE [outcome |-> "yield", val |-> el, frames |-> advanced]

\* next(gen): the generator after the pull, and what the pull gave
Pull(gen, l, alias) ==
    CASE gen.state = "closed" ->
           [gen |-> gen, outcome |-> "stop", val |-> None]
      [] gen.state = "created" /\ ~IsIterable(l) ->
           [gen |-> [state |-> "closed", frames |-> <<>>, raised |-> "TypeError"],
            outcome |-> "raise", val |-> Exc("TypeError")]
      [] OTHER ->
           LET r == Resume(IF gen.state = "created" THEN <<Frame(l)>> ELSE gen.frames, alias) IN
           [gen |-> IF r.outcome = "yield"
                    THEN [state |-> "suspended", frames |-> r.frames, raised |-> ""]
                    ELSE [state |-> "closed", frames |-> <<>>,
                          raised |-> IF r.outcome = "raise" THEN r.val.name ELSE ""],
            outcome |-> r.outcome, val |-> r.val]

(***************************************************************************)
(* Scenario 3: two generators are obtained from one nested value and       *)
(* pulled in any interleaving.                                             *)
(***************************************************************************)
Gens == {1, 2}

Leaves == {IntV(1), Str(Text(<<"a", "b">>))}

RECURSIVE ValuesOfSize(_)
RECURSIVE ForestsOfSize(_)
\* the values made of exactly n leaves and lists
ValuesOfSize(n) ==
    IF n = 1 THEN Leaves \cup {List(<<>>)}
    ELSE {List(f) : f \in ForestsOfSize(n - 1)}

\* the sequences of values made of exactly n leaves and lists in all
ForestsOfSize(n) ==
    IF n = 0 THEN {<<>>}
    ELSE UNION {{<<v>> \o f : v \in ValuesOfSize(k), f \in ForestsOfSize(n - k)} : k \in 1..n}

\* [1, [2, []], [[3]], 4, [5, 6]]
DocExample ==
    List(<<IntV(1), List(<<IntV(2), List(<<>>)>>), List(<<List(<<IntV(3)>>)>>),
           IntV(4), List(<<IntV(5), IntV(6)>>)>>)

NestedSamples ==
    {DocExample,
     List(<<Str(Text(<<"a", "b">>)), List(<<Str(Text(<<"c">>))>>)>>),
     List(<<Bytes(<<97, 98>>), List(<<Str(Text(<<"c">>))>>)>>),
     Bytes(<<97, 98>>)}

NestedInputs == UNION {ValuesOfSize(n) : n \in 1..MaxNodes} \cup NestedSamples

InitFlatten ==
    /\ phase = "flatten"
    /\ composer = "flatten"
    /\ nested \in NestedInputs
    /\ iterableAlias \in BOOLEAN
    /\ gens = [g \in Gens |-> NoGenerator]
    /\ outs = [g \in Gens |-> <<>>]
    /\ stops = [g \in Gens |-> 0]
    /\ f_args = <<>> /\ fn = identity /\ decorators = <<>>
    /\ args = <<>> /\ kwargs = NoKwargs /\ result = NoResult /\ dfs = <<>>

\* gen = flattenIrregularListOfLists(nested): no line of the body runs yet
CallFlatten(g) ==
    /\ gens[g].state = "none"
    /\ gens' = [gens EXCEPT ![g] = [state |-> "created", frames |-> <<>>, raised |-> ""]]
    /\ UNCHANGED <<phase, composer, f_args, fn, decorators, args, kwargs, result,
                   nested, iterableAlias, outs, stops, dfs>>

\* next(gen)
Next(g) ==
    /\ gens[g].state # "none"
    /\ gens[g].state = "closed" => stops[g] < MaxStops
    /\ LET p == Pull(gens[g], nested, iterableAlias) IN
          /\ gens' = [gens EXCEPT ![g] = p.gen]
          /\ outs' = [outs EXCEPT ![g] = IF p.outcome = "yield" THEN Append(@, p.val) ELSE @]
          /\ stops' = [stops EXCEPT ![g] = IF p.outcome = "stop" THEN @ + 1 ELSE @]
    /\ UNCHANGED <<phase, composer, f_args, fn, decorators, args, kwargs, result,
                   nested, iterableAlias, dfs>>

NextFlatten == \E g \in Gens : CallFlatten(g) \/ Next(g)

SpecFlatten == InitFlatten /\ [][NextFlatten]_vars

(***************************************************************************)
(* Claims about the flattener.  The leaves of a nested list are told by    *)
(* counting, not by flattening: LeafAt(s, k) is its k-th leaf from the     *)
(* left.                                                                   *)
(***************************************************************************)
RECURSIVE LeafCount(_)
LeafCount(v) ==
    IF v.kind # "list" THEN 1
    ELSE IF v.items = <<>> THEN 0
    ELSE LeafCount(v.items[1]) + LeafCount(List(Tail(v.items)))

RECURSIVE LeafAt(_, _)
LeafAt(v, k) ==
    IF v.kind # "list" THEN v
    ELSE IF k <= LeafCount(v.items[1]) THEN LeafAt(v.items[1], k)
    ELSE LeafAt(List(Tail(v.items)), k - LeafCount(v.items[1]))

LeavesInOrder(v) == [k \in 1..LeafCount(v) |-> LeafAt(v, k)]

Exhausted(g) == gens[g].state = "closed"

\* C4: for a nested list s, the sequence flattenIrregularListOfLists(s) gives
\* holds exactly the leaves of s, each once, in left-to-right order; empty lists
\* add nothing; [1, [2, []], [[3]], 4, [5, 6]] gives 1, 2, 3, 4, 5, 6.
C4_LeavesInOrder ==
    \A g \in Gens :
        (nested.kind = "list" /\ Exhausted(g)) =>
            /\ gens[g].raised = ""
            /\ outs[g] = LeavesInOrder(nested)
            /\ nested = DocExample =>
                  outs[g] = <<IntV(1), IntV(2), IntV(3), IntV(4), IntV(5), IntV(6)>>

RECURSIVE HasText(_)
\* a str or bytes occurs in v, at any depth or as v itself
HasText(v) ==
    \/ v.kind \in {"str", "bytes"}
    \/ v.kind = "list" /\ \E i \in 1..Len(v.items) : HasText(v.items[i])

\* C5: a str or bytes is a leaf wherever it occurs in the flattened value, that
\* value itself included: it is yielded whole, never character by character.
C5_TextIsALeaf ==
    \A g \in Gens :
        (HasText(nested) /\ Exhausted(g)) =>
            gens[g].raised = "" /\ outs[g] = LeavesInOrder(nested)

Pulled(g) == gens[g].state # "none" /\ (gens'[g] # gens[g] \/ stops'[g] # stops[g])

\* what C10 says of one step
LazyStep ==
    \A g \in Gens :
        (nested.kind = "list" /\ Pulled(g)) =>
            LET all == LeavesInOrder(nested)
                n == Len(outs[g])
            IN /\ n <= Len(all)
               /\ ~Exhausted(g) /\ n < Len(all) =>
                     outs'[g] = Append(outs[g], all[n + 1]) /\ ~Exhausted(g)'
               /\ ~Exhausted(g) /\ n = Len(all) =>
                     outs'[g] = outs[g] /\ Exhausted(g)' /\ gens'[g].raised = ""
               /\ Exhausted(g) => outs'[g] = outs[g] /\ Exhausted(g)'
               /\ \A h \in Gens \ {g} : gens'[h] = gens[h] /\ outs'[h] = outs[h]

\* C10: the sequences are lazy, independent and single-pass: a pull on a
\* sequence gives the one next leaf of the nested list, however far the other
\* sequence has got, and leaves the other as it is; once all leaves are out a
\* pull gives nothing and ends the sequence, which never yields again.
C10_LazyIndependentSinglePass == [][LazyStep]_vars

(***************************************************************************)
(* What holds of the flattener where collections.Iterable resolves.        *)
(***************************************************************************)
\* the sequence a nested list gives is the sequence of its leaves
WithAlias_LeavesInOrder == iterableAlias => C4_LeavesInOrder

\* a str or bytes inside a nested list is yielded whole; a str that is itself
\* the flattened value is iterated: its characters are yielded one by one
WithAlias_TextInsideIsALeaf ==
    \A g \in Gens :
        (iterableAlias /\ Exhausted(g)) =>
            CASE nested.kind = "list" -> outs[g] = LeavesInOrder(nested)
              [] nested.kind \in {"str", "bytes"} -> outs[g] = Iter(nested)
              [] OTHER -> outs[g] = <<>> /\ gens[g].raised = "TypeError"

\* pulls are lazy, independent and single-pass
WithAlias_LazyIndependentSinglePass == [][iterableAlias => LazyStep]_vars

(***************************************************************************)
(* merge_dfs.  A dataset is [columns, index, data]: the column labels, the *)
(* row labels, and per row the cells in column order.                      *)
(***************************************************************************)
Cell(c, i, r) == [col |-> c, label |-> i, row |-> r]
NaN == Cell("NaN", 0, 0)

\* a dataset with the one column c: its cell in row r tells where it is from
DataFrame(c, idx) ==
    [columns |-> <<c>>, index |-> idx,
     data |-> [r \in 1..Len(idx) |-> <<Cell(c, idx[r], r)>>]]

Labels(q) == {q[i] : i \in 1..Len(q)}

\* the labels of the merged frame: a label both frames carry gets the suffix
Suffixed(cols, others, suffix) ==
    [i \in 1..Len(cols) |-> IF cols[i] \in Labels(others) THEN cols[i] \o suffix ELSE cols[i]]

MergedColumns(left, right) ==
    Suffixed(left.columns, right.columns, "_x") \o Suffixed(right.columns, left.columns, "_y")

\* the positions of right's rows labelled i
Matches(right, i) == SelectSeq(Indices(right.index), LAMBDA j : right.index[j] = i)

\* a join that keeps every row of left, matched or not
pd_merge_left(left, right) ==
    LET pairs == Concat([i \in 1..Len(left.index) |->
                           LET m == Matches(right, left.index[i]) IN
                           IF m = <<>> THEN << <<i, 0>> >>
                           ELSE [k \in 1..Len(m) |-> <<i, m[k]>>]], 1, Len(left.index))
    IN Return([columns |-> MergedColumns(left, right),
               index |-> [p \in 1..Len(pairs) |-> left.index[pairs[p][1]]],
               data |-> [p \in 1..Len(pairs) |->
                           left.data[pairs[p][1]] \o
                           (IF pairs[p][2] = 0 THEN [c \in 1..Len(right.columns) |-> NaN]
                            ELSE right.data[pairs[p][2]])]])

\* pd.merge(left, right, left_index=True, right_index=True): the inner join on
\* the row labels, a row for every pair of equally labelled rows, in the order
\* of left's rows.  Labels that the suffixes would double raise MergeError
\* (pandas before 1.2 returned the doubled labels).
pd_merge(left, right) ==
    LET pairs == Concat([i \in 1..Len(left.index) |->
                           LET m == Matches(right, left.index[i]) IN
                           [k \in 1..Len(m) |-> <<i, m[k]>>]], 1, Len(left.index))
        columns == MergedColumns(left, right)
    IN IF Cardinality(Labels(columns)) # Len(columns)
          /\ Labels(left.columns) \cap Labels(right.columns) # {}
       THEN Raise("MergeError")
       ELSE Return([columns |-> columns,
                    index |-> [p \in 1..Len(pairs) |-> left.index[pairs[p][1]]],
                    data |-> [p \in 1..Len(pairs) |->
                                left.data[pairs[p][1]] \o right.data[pairs[p][2]]]])

RECURSIVE reduce_merge(_, _)
\* functools.reduce(lambda left, right: pd.merge(...), rest) carried on from acc
reduce_merge(acc, rest) ==
    IF rest = <<>> THEN Return(acc)
    ELSE LET r == pd_merge(acc, Head(rest)) IN
         IF r.status = "raise" THEN r ELSE reduce_merge(r.val, Tail(rest))

\* reduce without an initial value: an empty sequence raises TypeError
merge_dfs(ds) ==
    IF ds = <<>> THEN Raise("TypeError") ELSE reduce_merge(Head(ds), Tail(ds))

(***************************************************************************)
(* Scenario 4: datasets are merged.                                        *)
(***************************************************************************)
IndexLabels == {1, 2, 3}

ColumnName(k) == <<"a", "b", "c", "d", "e", "f", "g", "h", "i", "j">>[k]

RECURSIVE Shapes(_)
\* the row counts of the dataset sequences in which datasets and rows together
\* number at most budget
Shapes(budget) ==
    {<<>>} \cup
    UNION {{<<r>> \o rest : rest \in Shapes(budget - 1 - r)} : r \in 0..(budget - 1)}

RECURSIVE Rows(_, _)
\* the rows of the first k datasets of a shape
Rows(shape, k) == IF k = 0 THEN 0 ELSE Rows(shape, k - 1) + shape[k]

\* the datasets of a shape: the k-th has a column of its own or, where shared,
\* its predecessor's; labels are the row labels of all of them, one after another
Datasets(shape, shared, labels) ==
    [k \in 1..Len(shape) |->
        DataFrame(IF k > 1 /\ shared[k] THEN ColumnName(k - 1) ELSE ColumnName(k),
                  SubSeq(labels, Rows(shape, k - 1) + 1, Rows(shape, k)))]

InitMerge ==
    /\ phase = "merge"
    /\ composer = "merge"
    /\ \E shape \in Shapes(MaxSize) :
          \E shared \in [2..Len(shape) -> BOOLEAN],
             labels \in [1..Rows(shape, Len(shape)) -> IndexLabels] :
                dfs = Datasets(shape, shared, labels)
    /\ f_args = <<>> /\ fn = identity /\ decorators = <<>>
    /\ args = <<>> /\ kwargs = NoKwargs /\ result = NoResult
    /\ nested = None /\ iterableAlias = TRUE
    /\ gens = <<>> /\ outs = <<>> /\ stops = <<>>

CallMergeDfs ==
    /\ phase = "merge"
    /\ result' = Called(merge_dfs(dfs), <<>>)
    /\ phase' = "called"
    /\ UNCHANGED <<composer, f_args, fn, decorators, args, kwargs,
                   nested, iterableAlias, gens, outs, stops, dfs>>

NextMerge == CallMergeDfs

SpecMerge == InitMerge /\ [][NextMerge]_vars

(***************************************************************************)
(* Claims about the merge.                                                 *)
(***************************************************************************)
NoDuplicates(q) == Cardinality(Labels(q)) = Len(q)

CleanInputs ==
    /\ Len(dfs) >= 1
    /\ \A k \in 1..Len(dfs) : NoDuplicates(dfs[k].index)
    /\ \A k, m \in 1..Len(dfs) :
          k # m => Labels(dfs[k].columns) \cap Labels(dfs[m].columns) = {}

\* the cell of frame d in the row labelled i, under the column labelled c
CellOf(d, i, c) ==
    d.data[CHOOSE r \in 1..Len(d.index) : d.index[r] = i]
          [CHOOSE n \in 1..Len(d.columns) : d.columns[n] = c]

\* C7: for datasets with duplicate-free indices and pairwise disjoint columns,
\* merge_dfs gives the inner join on the index: its rows are exactly the labels
\* present in every input, each once (the others are dropped, no error), and each
\* row carries every input's columns with that input's cells for the label.
C7_InnerJoinOnIndex ==
    (phase = "called" /\ composer = "merge" /\ CleanInputs) =>
        /\ result.status = "return"
        /\ LET D == result.val IN
           /\ NoDuplicates(D.index)
           /\ Labels(D.index) = {i \in IndexLabels : \A k \in 1..Len(dfs) : i \in Labels(dfs[k].index)}
           /\ NoDuplicates(D.columns)
           /\ Labels(D.columns) = UNION {Labels(dfs[k].columns) : k \in 1..Len(dfs)}
           /\ \A r \in 1..Len(D.index) : Len(D.data[r]) = Len(D.columns)
           /\ \A i \in Labels(D.index), k \in 1..Len(dfs) :
                 \A c \in Labels(dfs[k].columns) : CellOf(D, i, c) = CellOf(dfs[k], i, c)

\* three clean datasets, one of them with a row the others lack
C7_Witness ==
    /\ phase = "called" /\ composer = "merge" /\ CleanInputs /\ Len(dfs) = 3
    /\ result.status = "return" /\ result.val.index # <<>>
    /\ \E k \in 1..Len(dfs) : Labels(dfs[k].index) # Labels(result.val.index)

====
